---- MODULE Spec2Model ----
(***************************************************************************)
(* Model of google/cloud/forseti/scanner/scanners/iam_rules_scanner.py:    *)
(* the bucket ancestor-binding resolver (_add_bucket_ancestor_bindings)    *)
(* and the IamPolicyScanner pipeline (run, _retrieve, _find_violations,    *)
(* _flatten_violations, _output_results).                                  *)
(*                                                                         *)
(* Python objects are modelled with identity: every IamPolicyBinding is a  *)
(* heap cell (an index into role_name / members), and a binding list holds *)
(* references to cells, because the resolver appends the ancestor's        *)
(* binding object itself (line 95) and merges members in place (line 91).  *)
(* Strings (full_name) are sequences of characters.                        *)
(***************************************************************************)
EXTENDS Integers, Sequences, FiniteSets, TLC

VARIABLES
    pc,                     \* position of the running code
    records,                \* history: the records scanner_iter has yielded
    policy_data,            \* list of (resource, policy, bindings) tuples
    role_name,              \* heap: binding object -> role_name
    members,                \* heap: binding object -> member set
    bucket_data,            \* resolver local: the bucket tuples, in list order
    bi,                     \* resolver local: position in bucket_data
    all_ancestor_bindings,  \* resolver local: binding lists of the ancestors
    ai,                     \* resolver local: position in all_ancestor_bindings
    ki,                     \* resolver local: position in ancestor_bindings
    calls,                  \* number of resolver invocations so far
    original,               \* history: tuples and heap as retrieval built them
    before,                 \* history: tuples and heap when the current call began
    resource_counts,        \* run local: per-kind counts of _retrieve
    fi,                     \* _find_violations: position in policies
    all_violations,         \* _find_violations: the collected violations
    engine_log,             \* history: the calls made to find_policy_violations
    sinks                   \* history: the sink invocations of _output_results

heap == <<policy_data, role_name, members>>

resolver_locals == <<bucket_data, bi, all_ancestor_bindings, ai, ki>>

run_locals == <<records, resource_counts, fi, all_violations, engine_log, sinks>>

vars == <<pc, heap, resolver_locals, calls, original, before, run_locals>>

----------------------------------------------------------------------------
(* Bounds of the model *)

MaxTuples == 4      \* longest tuple list handed to the resolver
MaxBindings == 3    \* most binding objects in one input tuple list
MaxCalls == 2       \* resolver invocations on one list (resolver harness)
MaxRecords == 3     \* most records scanner_iter yields in one run()

----------------------------------------------------------------------------
(* Values *)

\* The allow-list of lines 62-67.
storage_iam_roles ==
    {"roles/storage.admin", "roles/storage.objectViewer",
     "roles/storage.objectCreator", "roles/storage.objectAdmin"}

\* supported_iam_types of lines 250-251.
supported_iam_types == {"organization", "folder", "project", "bucket"}

Members == {"alice", "bob"}

\* The policies a raw record may carry: its JSON bindings array.
Policies ==
    { <<>>,
      <<[role |-> "roles/storage.admin", members |-> {"alice"}]>>,
      <<[role |-> "roles/storage.admin", members |-> {"bob"}]>>,
      <<[role |-> "roles/storage.objectViewer", members |-> {"alice"}],
        [role |-> "roles/owner", members |-> {"bob"}]>>,
      <<[role |-> "roles/storage.admin", members |-> {"alice"}],
        [role |-> "roles/storage.admin", members |-> {"bob"}]>> }

\* Resources of the inventory: parent type and full_name (a character
\* string).  The organization is above everything, the project above the
\* first bucket only; the second bucket lives in a folder that has no policy
\* of its own and its name repeats the text "op"; the last bucket has an
\* empty full_name.
Resources ==
    { [type |-> "organization", full_name |-> <<"o">>],
      [type |-> "project",      full_name |-> <<"o", "p">>],
      [type |-> "bucket",       full_name |-> <<"o", "p", "b">>],
      [type |-> "bucket",       full_name |-> <<"o", "f", "o", "p">>],
      [type |-> "bucket",       full_name |-> <<>>] }

----------------------------------------------------------------------------
(* Helpers *)

Min(S) == CHOOSE x \in S : \A y \in S : x <= y

Range(s) == {s[i] : i \in 1..Len(s)}

\* str.find(sub): lowest 0-based index of sub in s, -1 when absent.
Find(s, sub) ==
    LET hits == {i \in 0..(Len(s) - Len(sub)) :
                    SubSeq(s, i + 1, i + Len(sub)) = sub}
    IN  IF hits = {} THEN -1 ELSE Min(hits)

\* IamPolicyBinding.__eq__: same role and same member set.
BindingEq(role, mem, x, y) == role[x] = role[y] /\ mem[x] = mem[y]

\* IamPolicyBinding.merge_members: the members of other are added to mine.
merge_members(mem, mine, other) ==
    [mem EXCEPT ![mine] = mem[mine] \cup mem[other]]

----------------------------------------------------------------------------
(* _retrieve, lines 249-307 *)

\* The None that create_from returns for an entry that is not a binding.
None == [role |-> "", members |-> {}]

\* IamPolicyBinding.create_from: an entry without role or members is None.
create_from(b) == IF b.role = "" \/ b.members = {} THEN None ELSE b

\* filter(None, [create_from(b) for b in bindings]), lines 261-263.
policy_bindings(raw) == SelectSeq(raw, LAMBDA b : create_from(b) # None)

\* NewTuples, had line 287 been a plain `else`.
NewTuples_Mutant(t, tup) ==
    (IF t = "bucket" THEN <<[tup EXCEPT !.type = "bucket"]>> ELSE <<>>) \o
    (IF t = "project" THEN <<[tup EXCEPT !.type = "project"]>>
     ELSE IF t = "folder" THEN <<[tup EXCEPT !.type = "folder"]>>
     ELSE <<[tup EXCEPT !.type = "organization"]>>)

\* Lines 265-294: the tuples appended for a record of parent type t; the
\* bucket test is an `if` of its own, the other three form an if/elif chain.
NewTuples(t, tup) ==
    (IF t = "bucket" THEN <<[tup EXCEPT !.type = "bucket"]>> ELSE <<>>) \o
    (IF t = "project" THEN <<[tup EXCEPT !.type = "project"]>>
     ELSE IF t = "folder" THEN <<[tup EXCEPT !.type = "folder"]>>
     ELSE IF t = "organization" THEN <<[tup EXCEPT !.type = "organization"]>>
     ELSE <<>>)

\* Lines 266, 273, 280, 288: the counters bumped for a record of parent type t.
NewCounts(t, counts) ==
    LET c1 == IF t = "bucket" THEN [counts EXCEPT !["bucket"] = @ + 1]
              ELSE counts
    IN  IF t = "project" THEN [c1 EXCEPT !["project"] = @ + 1]
        ELSE IF t = "folder" THEN [c1 EXCEPT !["folder"] = @ + 1]
        ELSE IF t = "organization" THEN [c1 EXCEPT !["organization"] = @ + 1]
        ELSE c1

\* Lines 257-294: one iteration of the loop over scanner_iter, on record rec.
RetrieveRecord(rec) ==
    /\ pc = "retrieve"
    /\ records' = Append(records, rec)
    /\ IF rec.type \notin supported_iam_types
       THEN UNCHANGED <<heap, resource_counts>>
       ELSE
         LET pb   == policy_bindings(rec.bindings)
             base == Len(role_name)
             tup  == [type |-> rec.type, full_name |-> rec.full_name,
                      policy |-> Len(records) + 1,
                      bindings |-> [j \in 1..Len(pb) |-> base + j]]
         IN  /\ policy_data' = policy_data \o NewTuples(rec.type, tup)
             /\ role_name' = role_name \o [j \in 1..Len(pb) |-> pb[j].role]
             /\ members' = members \o [j \in 1..Len(pb) |-> pb[j].members]
             /\ resource_counts' = NewCounts(rec.type, resource_counts)
    /\ UNCHANGED <<pc, resolver_locals, calls, original, before, fi,
                   all_violations, engine_log, sinks>>

\* Lines 296-298: nothing retrieved, sys.exit(1).
RetrieveExit ==
    /\ pc = "retrieve"
    /\ policy_data = <<>>
    /\ pc' = "exit"
    /\ UNCHANGED <<heap, resolver_locals, calls, original, before, run_locals>>

\* RetrieveReturn, had the test of line 296 been left out.
RetrieveReturn_Mutant ==
    /\ pc = "retrieve"
    /\ pc' = "resolve"
    /\ original' = [policy_data |-> policy_data, members |-> members]
    /\ UNCHANGED <<heap, resolver_locals, calls, before, run_locals>>

\* RetrieveReturn, had run() passed over line 313.
RetrieveReturn_SkipResolver ==
    /\ pc = "retrieve"
    /\ policy_data # <<>>
    /\ pc' = "resolved"
    /\ original' = [policy_data |-> policy_data, members |-> members]
    /\ UNCHANGED <<heap, resolver_locals, calls, before, run_locals>>

\* Lines 300-307 and 312: _retrieve returns policy_data and resource_counts.
RetrieveReturn ==
    /\ pc = "retrieve"
    /\ policy_data # <<>>
    /\ pc' = "resolve"
    /\ original' = [policy_data |-> policy_data, members |-> members]
    /\ UNCHANGED <<heap, resolver_locals, calls, before, run_locals>>

----------------------------------------------------------------------------
(* _add_bucket_ancestor_bindings, lines 62-95 *)

\* Lines 68-71: the bucket tuples, in list order (as indices into policy_data).
BucketTuples(pd) ==
    SelectSeq([i \in 1..Len(pd) |-> i], LAMBDA i : pd[i].type = "bucket")

\* Lines 76-79: tuple t passes both `continue` tests for bucket tuple b.
IsAncestor(pd, t, b) ==
    /\ pd[t].full_name # pd[b].full_name
    /\ Find(pd[b].full_name, pd[t].full_name) = 0

\* Lines 74-80: the binding lists (by reference) of the tuples that pass.
AncestorBindings(pd, b) ==
    SelectSeq([i \in 1..Len(pd) |-> i], LAMBDA t : IsAncestor(pd, t, b))

\* The loops of lines 82-83: first position at or after (a, k) that holds an
\* ancestor binding, <<0, 0>> when the loops are exhausted.
NextPosition(pd, aab, a, k) ==
    LET later == UNION {{<<a2, k2>> : k2 \in 1..Len(pd[aab[a2]].bindings)} :
                            a2 \in 1..Len(aab)}
        ahead == {p \in later : p[1] > a \/ (p[1] = a /\ p[2] >= k)}
    IN  IF ahead = {} THEN <<0, 0>>
        ELSE CHOOSE p \in ahead :
                \A q \in ahead : p[1] < q[1] \/ (p[1] = q[1] /\ p[2] <= q[2])

\* Move the loops of lines 73, 82, 83 on to position (a, k) or beyond.
Advance(pd, aab, a, k) ==
    LET p == NextPosition(pd, aab, a, k) IN
    IF p = <<0, 0>>
    THEN pc' = "bucket" /\ bi' = bi + 1 /\ ai' = 0 /\ ki' = 0
    ELSE pc' = "binding" /\ bi' = bi /\ ai' = p[1] /\ ki' = p[2]

bucket_bindings == policy_data[bucket_data[bi]].bindings
ancestor_binding == policy_data[all_ancestor_bindings[ai]].bindings[ki]

\* Line 86: ancestor_binding in bucket_bindings.
InBucketBindings ==
    \E j \in 1..Len(bucket_bindings) :
        BindingEq(role_name, members, bucket_bindings[j], ancestor_binding)

\* SameRole, had line 90 compared the bindings instead of their role_name.
SameRole_Mutant ==
    {j \in 1..Len(bucket_bindings) :
        BindingEq(role_name, members, bucket_bindings[j], ancestor_binding)}

\* Lines 89-90: positions of the bucket's bindings with the ancestor's role.
SameRole ==
    {j \in 1..Len(bucket_bindings) :
        role_name[bucket_bindings[j]] = role_name[ancestor_binding]}

\* Lines 68-71: entry of the function, collects bucket_data.
CollectBuckets ==
    /\ pc = "resolve"
    /\ calls' = calls + 1
    /\ before' = [policy_data |-> policy_data, members |-> members]
    /\ bucket_data' = BucketTuples(policy_data)
    /\ bi' = 1 /\ ai' = 0 /\ ki' = 0
    /\ all_ancestor_bindings' = <<>>
    /\ pc' = "bucket"
    /\ UNCHANGED <<heap, original, run_locals>>

\* Lines 73-80: next bucket, collect the binding lists of its ancestors.
ScanAncestors ==
    /\ pc = "bucket"
    /\ bi <= Len(bucket_data)
    /\ all_ancestor_bindings' = AncestorBindings(policy_data, bucket_data[bi])
    /\ Advance(policy_data, all_ancestor_bindings', 1, 1)
    /\ UNCHANGED <<heap, bucket_data, calls, original, before, run_locals>>

\* Lines 84-85: the ancestor binding's role is not a storage role.
SkipRole ==
    /\ pc = "binding"
    /\ role_name[ancestor_binding] \notin storage_iam_roles
    /\ Advance(policy_data, all_ancestor_bindings, ai, ki + 1)
    /\ UNCHANGED <<heap, bucket_data, all_ancestor_bindings, calls, original,
                   before, run_locals>>

\* Lines 86-87: an equal binding is already in the bucket's list.
SkipPresent ==
    /\ pc = "binding"
    /\ role_name[ancestor_binding] \in storage_iam_roles
    /\ InBucketBindings
    /\ Advance(policy_data, all_ancestor_bindings, ai, ki + 1)
    /\ UNCHANGED <<heap, bucket_data, all_ancestor_bindings, calls, original,
                   before, run_locals>>

\* Lines 89-92: merge into the first bucket binding with the same role.
MergeMembers ==
    /\ pc = "binding"
    /\ role_name[ancestor_binding] \in storage_iam_roles
    /\ ~InBucketBindings
    /\ SameRole # {}
    /\ members' = merge_members(members, bucket_bindings[Min(SameRole)],
                                ancestor_binding)
    /\ Advance(policy_data, all_ancestor_bindings, ai, ki + 1)
    /\ UNCHANGED <<policy_data, role_name, bucket_data, all_ancestor_bindings,
                   calls, original, before, run_locals>>

\* AppendBinding, had the role test of lines 84-85 been left out.
AppendBinding_NoFilter ==
    /\ pc = "binding"
    /\ ~InBucketBindings
    /\ SameRole = {}
    /\ policy_data' = [policy_data EXCEPT ![bucket_data[bi]].bindings =
                          Append(@, ancestor_binding)]
    /\ Advance(policy_data', all_ancestor_bindings, ai, ki + 1)
    /\ UNCHANGED <<role_name, members, bucket_data, all_ancestor_bindings,
                   calls, original, before, run_locals>>

\* AppendBinding, had line 95 inserted the binding at the head of the list.
AppendBinding_AtHead ==
    /\ pc = "binding"
    /\ role_name[ancestor_binding] \in storage_iam_roles
    /\ ~InBucketBindings
    /\ SameRole = {}
    /\ policy_data' = [policy_data EXCEPT ![bucket_data[bi]].bindings =
                          <<ancestor_binding>> \o @]
    /\ Advance(policy_data', all_ancestor_bindings, ai, ki + 1)
    /\ UNCHANGED <<role_name, members, bucket_data, all_ancestor_bindings,
                   calls, original, before, run_locals>>

\* Lines 93-95: no binding with that role, append the ancestor's binding object.
AppendBinding ==
    /\ pc = "binding"
    /\ role_name[ancestor_binding] \in storage_iam_roles
    /\ ~InBucketBindings
    /\ SameRole = {}
    /\ policy_data' = [policy_data EXCEPT ![bucket_data[bi]].bindings =
                          Append(@, ancestor_binding)]
    /\ Advance(policy_data', all_ancestor_bindings, ai, ki + 1)
    /\ UNCHANGED <<role_name, members, bucket_data, all_ancestor_bindings,
                   calls, original, before, run_locals>>

\* Line 73 exhausted: the function returns.
ResolverReturn ==
    /\ pc = "bucket"
    /\ bi > Len(bucket_data)
    /\ pc' = "resolved"
    /\ UNCHANGED <<heap, resolver_locals, calls, original, before, run_locals>>

Resolve ==
    \/ CollectBuckets
    \/ ScanAncestors
    \/ SkipRole
    \/ SkipPresent
    \/ MergeMembers
    \/ AppendBinding
    \/ ResolverReturn

----------------------------------------------------------------------------
(* _find_violations, lines 226-236 *)

\* The members a rule of the rule book implicates: rule 1 two, rule 2 none.
RuleMembers(rule) ==
    IF rule = 1
    THEN <<[type |-> <<"user">>, name |-> <<"alice">>],
           [type |-> <<"group">>, name |-> <<"devs">>]>>
    ELSE <<>>

\* A RuleViolation of the rule engine for tuple tup and rule number rule.
Violation(tup, rule) ==
    [resource_id |-> tup.policy, resource_type |-> tup.type,
     full_name |-> tup.full_name, rule_index |-> rule,
     rule_name |-> <<"rule", rule>>, violation_type |-> "ADDED",
     role |-> "roles/storage.admin", members |-> RuleMembers(rule),
     inventory_data |-> tup.policy]

\* What find_policy_violations may return for tuple tup.
EngineResults(tup) ==
    {<<>>, <<Violation(tup, 1)>>, <<Violation(tup, 2), Violation(tup, 1)>>}

\* extend, had line 235 put the new violations in front.
extend_Mutant(all, violations) == violations \o all

\* Line 235: all_violations.extend(violations).
extend(all, violations) == all \o violations

\* Lines 228-235: one iteration, the engine returns violations.
FindViolations ==
    /\ pc = "resolved"
    /\ fi < Len(policy_data)
    /\ \E violations \in EngineResults(policy_data[fi + 1]) :
          /\ all_violations' = extend(all_violations, violations)
          /\ engine_log' = Append(engine_log,
                [tuple |-> fi + 1, raised |-> FALSE, result |-> violations])
    /\ fi' = fi + 1
    /\ UNCHANGED <<pc, heap, resolver_locals, calls, original, before,
                   records, resource_counts, sinks>>

\* EngineRaises, had the loop caught the exception and gone on.
EngineRaises_Mutant ==
    /\ pc = "resolved"
    /\ fi < Len(policy_data)
    /\ engine_log' = Append(engine_log,
          [tuple |-> fi + 1, raised |-> TRUE, result |-> <<>>])
    /\ fi' = fi + 1
    /\ UNCHANGED <<pc, heap, resolver_locals, calls, original, before, records,
                   resource_counts, all_violations, sinks>>

\* Lines 233-234: the engine raises; the exception leaves _find_violations
\* and run(), which have no handler.
EngineRaises ==
    /\ pc = "resolved"
    /\ fi < Len(policy_data)
    /\ engine_log' = Append(engine_log,
          [tuple |-> fi + 1, raised |-> TRUE, result |-> <<>>])
    /\ pc' = "raised"
    /\ UNCHANGED <<heap, resolver_locals, calls, original, before, records,
                   resource_counts, fi, all_violations, sinks>>

----------------------------------------------------------------------------
(* _flatten_violations, lines 137-153 *)

\* Line 142: '%s:%s' % (member.type, member.name).
MemberString(member) == member.type \o <<":">> \o member.name

\* Lines 139-153: the dict yielded for one member of one violation.
FlatRecord(violation, member) ==
    [resource_id |-> violation.resource_id,
     resource_type |-> violation.resource_type,
     full_name |-> violation.full_name,
     rule_index |-> violation.rule_index,
     rule_name |-> violation.rule_name,
     violation_type |-> violation.violation_type,
     violation_data |-> [full_name |-> violation.full_name,
                         role |-> violation.role,
                         member |-> MemberString(member)],
     inventory_data |-> violation.inventory_data]

\* _flatten_violations, had line 138 taken the first member only.
RECURSIVE _flatten_violations_Mutant(_)
_flatten_violations_Mutant(violations) ==
    IF violations = <<>> THEN <<>>
    ELSE [m \in 1..(IF violations[1].members = <<>> THEN 0 ELSE 1) |->
             FlatRecord(violations[1], violations[1].members[m])]
         \o _flatten_violations_Mutant(Tail(violations))

\* Lines 137-153: one record per violation and member, in that order.
RECURSIVE _flatten_violations(_)
_flatten_violations(violations) ==
    IF violations = <<>> THEN <<>>
    ELSE [m \in 1..Len(violations[1].members) |->
             FlatRecord(violations[1], violations[1].members[m])]
         \o _flatten_violations(Tail(violations))

----------------------------------------------------------------------------
(* _output_results, lines 162-214 *)

\* What _output_results_to_db may return: the errors of the database write.
DbErrors == {<<>>, <<"db error">>}

\* Lines 162-214, with the configuration the scanner was constructed with:
\* output_path and email_recipient set or not.
_output_results ==
    /\ pc = "resolved"
    /\ fi = Len(policy_data)
    /\ \E output_path \in BOOLEAN, email_recipient \in BOOLEAN,
          violation_errors \in DbErrors :
          LET flat == _flatten_violations(all_violations)
              db   == <<[sink |-> "db", data |-> flat,
                                errors |-> violation_errors]>>
              csv  == IF output_path
                      THEN <<[sink |-> "csv", data |-> flat],
                             [sink |-> "upload", data |-> <<>>]>>
                      ELSE <<>>
              mail == IF output_path /\ email_recipient
                      THEN <<[sink |-> "notifier", data |-> flat,
                              resource_counts |-> resource_counts,
                              violation_errors |-> violation_errors]>>
                      ELSE <<>>
          IN  sinks' = db \o csv \o mail
    /\ pc' = "done"
    /\ UNCHANGED <<heap, resolver_locals, calls, original, before, records,
                   resource_counts, fi, all_violations, engine_log>>

----------------------------------------------------------------------------
(* Construction *)

\* The scanner after __init__ (lines 115-125), before run().
Init ==
    /\ pc = "retrieve"
    /\ records = <<>>
    /\ policy_data = <<>>
    /\ role_name = <<>>
    /\ members = <<>>
    /\ resource_counts = [t \in supported_iam_types |-> 0]
    /\ original = [policy_data |-> <<>>, members |-> <<>>]
    /\ before = [policy_data |-> <<>>, members |-> <<>>]
    /\ bucket_data = <<>> /\ bi = 0
    /\ all_ancestor_bindings = <<>> /\ ai = 0 /\ ki = 0
    /\ calls = 0
    /\ fi = 0 /\ all_violations = <<>> /\ engine_log = <<>>
    /\ sinks = <<>>

----------------------------------------------------------------------------
(* The resolver on every tuple list, called up to MaxCalls times *)

\* The records of the inventory: one policy per resource.
RawRecords ==
    {[type |-> r.type, full_name |-> r.full_name, bindings |-> p] :
        r \in Resources, p \in Policies}

\* scanner_iter yields one more record, of a resource not yet seen.
RetrieveInventory ==
    \E rec \in RawRecords :
        /\ Len(records) < MaxTuples
        /\ Len(role_name) + Len(rec.bindings) <= MaxBindings
        /\ \A i \in 1..Len(records) :
              <<records[i].type, records[i].full_name>> #
              <<rec.type, rec.full_name>>
        /\ RetrieveRecord(rec)

\* The caller runs the resolver again on the list it has just resolved.
CallAgain ==
    /\ pc = "resolved"
    /\ calls < MaxCalls
    /\ pc' = "resolve"
    /\ UNCHANGED <<heap, resolver_locals, calls, original, before, run_locals>>

NextResolver ==
    \/ RetrieveInventory
    \/ RetrieveReturn
    \/ Resolve
    \/ CallAgain

SpecResolver == Init /\ [][NextResolver]_vars

----------------------------------------------------------------------------
(* run(), lines 312-315 *)

\* The records scanner_iter may yield in a run: an unsupported parent type
\* and an entry that does not parse into a binding are among them.
ScanRecords ==
    { [type |-> "organization", full_name |-> <<"o">>,
       bindings |-> <<[role |-> "roles/storage.admin", members |-> {"alice"}]>>],
      [type |-> "folder", full_name |-> <<"o", "f">>,
       bindings |-> <<[role |-> "roles/owner", members |-> {"bob"}]>>],
      [type |-> "project", full_name |-> <<"o", "p">>,
       bindings |-> <<[role |-> "roles/owner", members |-> {"bob"}],
                      [role |-> "roles/storage.admin", members |-> {"bob"}]>>],
      [type |-> "bucket", full_name |-> <<"o", "p", "b">>,
       bindings |-> <<[role |-> "roles/storage.objectViewer", members |-> {}],
                      [role |-> "roles/storage.objectViewer",
                       members |-> {"alice"}]>>],
      [type |-> "serviceaccount", full_name |-> <<"o", "p", "s">>,
       bindings |-> <<[role |-> "roles/storage.admin", members |-> {"alice"}]>>] }

\* scanner_iter yields one more record.
RetrieveScan ==
    \E rec \in ScanRecords :
        /\ Len(records) < MaxRecords
        /\ RetrieveRecord(rec)

Next ==
    \/ RetrieveScan
    \/ RetrieveExit
    \/ RetrieveReturn
    \/ Resolve
    \/ FindViolations
    \/ EngineRaises
    \/ _output_results

Spec == Init /\ [][Next]_vars

----------------------------------------------------------------------------
(* Vocabulary of the properties *)

Tuples == 1..Len(policy_data)

Buckets == {t \in Tuples : policy_data[t].type = "bucket"}

\* a is a strict prefix of b.
StrictPrefix(a, b) == Len(a) < Len(b) /\ SubSeq(b, 1, Len(a)) = a

\* The tuples above bucket b in the hierarchy.
Ancestors(b) ==
    {t \in Tuples : StrictPrefix(policy_data[t].full_name,
                                 policy_data[b].full_name)}

\* The first call of the resolver has returned.
Resolved == pc = "resolved" /\ calls = 1

\* The list is one an inventory of well-formed policies gives: every
\* full_name is non-empty and no policy has two bindings for one role.
WellFormed ==
    \A t \in 1..Len(original.policy_data) :
        /\ original.policy_data[t].full_name # <<>>
        /\ \A j, k \in 1..Len(original.policy_data[t].bindings) :
              role_name[original.policy_data[t].bindings[j]] =
              role_name[original.policy_data[t].bindings[k]] => j = k

OriginalBindings(t) == original.policy_data[t].bindings
OriginalRoles(t) == {role_name[x] : x \in Range(OriginalBindings(t))}
OriginalMembers(t, role) ==
    UNION {original.members[x] :
             x \in {y \in Range(OriginalBindings(t)) : role_name[y] = role}}
AllOriginalMembers(t) ==
    UNION {original.members[x] : x \in Range(OriginalBindings(t))}

Bindings(t) == policy_data[t].bindings
Roles(t) == {role_name[x] : x \in Range(Bindings(t))}
WithRole(t, role) == {j \in 1..Len(Bindings(t)) : role_name[Bindings(t)[j]] = role}
RoleMembers(t, role) == UNION {members[Bindings(t)[j]] : j \in WithRole(t, role)}
AllMembers(t) == UNION {members[x] : x \in Range(Bindings(t))}

AllRoles == {role_name[x] : x \in 1..Len(role_name)}

\* The allow-listed members the ancestors of b were given for role.
InheritedMembers(b, role) ==
    IF role \in storage_iam_roles
    THEN UNION {OriginalMembers(t, role) : t \in Ancestors(b)}
    ELSE {}

\* No two entries of the list have the same role_name.
UniqueRoles(list) ==
    \A j, k \in 1..Len(list) : role_name[list[j]] = role_name[list[k]] => j = k

\* Tuple t is as retrieval built it: same entries, same member sets.
Untouched(t) ==
    /\ Bindings(t) = OriginalBindings(t)
    /\ \A x \in Range(Bindings(t)) : members[x] = original.members[x]

----------------------------------------------------------------------------
(* Properties of the resolver, under SpecResolver *)

\* C1. Non-ancestor exclusion: once the resolver has processed the list, a
\* member or a role that only the original bindings of S carry does not occur
\* in the bindings of a bucket B of which S is not a strict-prefix ancestor
\* (stated for the well-formed lists, where it already fails).
C1_NonAncestorExclusion ==
    (Resolved /\ WellFormed) =>
      \A b \in Buckets : \A s \in (Tuples \ {b}) \ Ancestors(b) :
        /\ \A m \in AllOriginalMembers(s) :
              (\A t \in Tuples \ {s} : m \notin AllOriginalMembers(t))
                 => m \notin AllMembers(b)
        /\ \A r \in OriginalRoles(s) :
              (\A t \in Tuples \ {s} : r \notin OriginalRoles(t))
                 => r \notin Roles(b)

\* C2. Order independence: whatever the order of the list, each bucket ends
\* with, for every role, the union of its own original members and of the
\* original allow-listed members of all its ancestors (stated for the
\* well-formed lists, where it already fails).
C2_OrderIndependentUnion ==
    (Resolved /\ WellFormed) =>
      \A b \in Buckets : \A r \in AllRoles :
        RoleMembers(b, r) = OriginalMembers(b, r) \cup InheritedMembers(b, r)

\* C3. Idempotence: a second run on the list a first run produced changes no
\* binding list and no member set (stated for the well-formed lists, where
\* it already fails).
C3_Idempotent ==
    (pc = "resolved" /\ calls = 2 /\ WellFormed) =>
      /\ policy_data = before.policy_data
      /\ members = before.members

\* C4. Frame condition: organization, folder and project tuples have after
\* the call the bindings they had before it, entry by entry, member by member
\* (stated for the well-formed lists, where it already fails).
C4_NonBucketFrame ==
    (Resolved /\ WellFormed) => \A t \in Tuples \ Buckets : Untouched(t)

\* C5. Member union on same role: a bucket with one binding for an
\* allow-listed role R (members X), below ancestors with bindings for R
\* (members Y in all), ends with exactly one binding for R, with members
\* X union Y (stated for the well-formed lists, where it already fails).
C5_MemberUnion ==
    (Resolved /\ WellFormed) =>
      \A b \in Buckets : \A r \in storage_iam_roles :
        ( /\ Cardinality({j \in 1..Len(OriginalBindings(b)) :
                            role_name[OriginalBindings(b)[j]] = r}) = 1
          /\ \E t \in Ancestors(b) : r \in OriginalRoles(t) )
        => /\ Cardinality(WithRole(b, r)) = 1
           /\ RoleMembers(b, r) =
                 OriginalMembers(b, r) \cup InheritedMembers(b, r)

\* C6. Ancestor-only, role-filtered merge: a bucket without a binding for an
\* allow-listed role R, below ancestors with bindings for R, gains exactly one
\* binding for R whose members are the ancestors' members, and keeps its own
\* original bindings with their members (stated for the well-formed lists,
\* where it already fails).
C6_AncestorOnlyMerge ==
    (Resolved /\ WellFormed) =>
      \A b \in Buckets : \A r \in storage_iam_roles :
        ( /\ r \notin OriginalRoles(b)
          /\ \E t \in Ancestors(b) : r \in OriginalRoles(t) )
        => /\ Cardinality(WithRole(b, r)) = 1
           /\ RoleMembers(b, r) = InheritedMembers(b, r)
           /\ SubSeq(Bindings(b), 1, Len(OriginalBindings(b)))
                 = OriginalBindings(b)
           /\ \A x \in Range(OriginalBindings(b)) :
                 original.members[x] \subseteq members[x]

\* C7. Malformed paths are inert: the resolver never takes a binding of a
\* tuple with an empty full_name as an ancestor binding of a bucket, and a
\* bucket with an empty full_name keeps the bindings and the members it was
\* retrieved with.
C7_MalformedInert ==
    /\ pc = "binding" =>
          policy_data[all_ancestor_bindings[ai]].full_name # <<>>
    /\ Resolved =>
          \A b \in Buckets : policy_data[b].full_name = <<>> => Untouched(b)

\* C8 as stated. Post-merge role uniqueness: after the resolver has returned
\* no binding list has two entries with the same role_name.
C8_RoleUniqueness ==
    pc = "resolved" => \A t \in Tuples : UniqueRoles(Bindings(t))

\* C8. Post-merge role uniqueness, amended: a list that had no two entries
\* with the same role_name when it was retrieved never has two, and every
\* entry the resolver has appended has a role that no earlier entry of the
\* list has.
C8_RoleUniquenessKept ==
    \A t \in 1..Len(original.policy_data) :
      /\ UniqueRoles(OriginalBindings(t)) => UniqueRoles(Bindings(t))
      /\ \A j \in (Len(OriginalBindings(t)) + 1)..Len(Bindings(t)) :
            \A k \in 1..(j - 1) :
               role_name[Bindings(t)[k]] # role_name[Bindings(t)[j]]

\* Witness of C8: the resolver has appended an entry to a bucket that had
\* one binding per role, and has merged members into the own entry of a
\* bucket that had one binding per role.
C8_Witness ==
    /\ pc = "resolved"
    /\ \E b \in Buckets :
          /\ UniqueRoles(OriginalBindings(b))
          /\ Len(Bindings(b)) > Len(OriginalBindings(b))
    /\ \E b \in Buckets :
          /\ UniqueRoles(OriginalBindings(b))
          /\ \E x \in Range(OriginalBindings(b)) :
                members[x] # original.members[x]

\* C13. Role allow-list filter: only bindings with one of the four storage
\* roles are added or merged, so a binding of a bucket with another role is
\* one of the bucket's own original bindings, and the member set of every
\* binding with another role is the one it was retrieved with.
C13_AllowListFilter ==
    /\ \A b \in 1..Len(original.policy_data) :
          policy_data[b].type = "bucket" =>
            \A j \in 1..Len(Bindings(b)) :
              role_name[Bindings(b)[j]] \notin
                  {"roles/storage.admin", "roles/storage.objectViewer",
                   "roles/storage.objectCreator", "roles/storage.objectAdmin"}
              => /\ j <= Len(OriginalBindings(b))
                 /\ Bindings(b)[j] = OriginalBindings(b)[j]
    /\ \A x \in 1..Len(original.members) :
          members[x] # original.members[x] =>
              role_name[x] \in
                  {"roles/storage.admin", "roles/storage.objectViewer",
                   "roles/storage.objectCreator", "roles/storage.objectAdmin"}

\* Witness of C13: a bucket below a tuple with a roles/owner binding has
\* been given a binding of that tuple's policy, and not the roles/owner one.
C13_Witness ==
    /\ Resolved
    /\ \E b \in Buckets : \E t \in Ancestors(b) :
          /\ "roles/owner" \in OriginalRoles(t)
          /\ "roles/owner" \notin Roles(b)
          /\ \E x \in Range(OriginalBindings(t)) : x \in Range(Bindings(b))

----------------------------------------------------------------------------
(* Properties of run(), under Spec *)

\* The results the engine has returned so far, joined in call order.
RECURSIVE Returned(_)
Returned(log) ==
    IF log = <<>> THEN <<>>
    ELSE Returned(SubSeq(log, 1, Len(log) - 1)) \o log[Len(log)].result

\* C9. Aggregation order and multiplicity: the engine is called once per
\* tuple, in list order, only after the resolver has returned; the list of
\* violations is the per-tuple results joined in that order, and when
\* _find_violations is through every tuple has been passed exactly once.
C9_AggregationOrder ==
    /\ \A k \in 1..Len(engine_log) : engine_log[k].tuple = k
    /\ Len(engine_log) <= Len(policy_data)
    /\ engine_log # <<>> =>
          calls = 1 /\ pc \in {"resolved", "raised", "done"}
    /\ all_violations = Returned(engine_log)
    /\ pc = "done" => Len(engine_log) = Len(policy_data)

\* Witness of C9: a run is done in which the engine returned violations for
\* two tuples at least, two of them for one tuple.
C9_Witness ==
    /\ pc = "done"
    /\ \E j, k \in 1..Len(engine_log) :
          j < k /\ Len(engine_log[j].result) = 2 /\ engine_log[k].result # <<>>

\* C10. Rule engine failure aborts the run: the call that raised is the last
\* call made to the engine, the run stays where the exception left it, and
\* no sink has been invoked.
C10_EngineFailureAborts ==
    \A k \in 1..Len(engine_log) :
        engine_log[k].raised =>
            /\ k = Len(engine_log)
            /\ pc = "raised"
            /\ sinks = <<>>

\* Witness of C10: the engine raised on a tuple that is not the last, after
\* violations had been collected from an earlier one.
C10_Witness ==
    /\ pc = "raised"
    /\ all_violations # <<>>
    /\ Len(engine_log) < Len(policy_data)

\* C11. Empty retrieval is fatal: with no tuple retrieved the run is either
\* still retrieving or has exited with code 1 (pc = "exit"); the resolver has
\* not been entered, the engine has not been asked and no sink has been
\* invoked; and the run only exits this way with no tuple.
C11_EmptyRetrievalFatal ==
    /\ policy_data = <<>> =>
          /\ pc \in {"retrieve", "exit"}
          /\ calls = 0
          /\ engine_log = <<>>
          /\ sinks = <<>>
    /\ pc = "exit" => policy_data = <<>>

\* Witness of C11: the run has exited after records of unsupported parent
\* kinds only.
C11_Witness ==
    /\ pc = "exit"
    /\ records # <<>>
    /\ \A i \in 1..Len(records) : records[i].type \notin supported_iam_types

\* The number of members of the first n violations of vs.
RECURSIVE MemberCount(_, _)
MemberCount(vs, n) ==
    IF n = 0 THEN 0 ELSE MemberCount(vs, n - 1) + Len(vs[n].members)

\* C12. Flatten fan-out: the flat list has one record per violation and
\* member, in violation order and then member order, so its length is the sum
\* of the member counts and a violation without members has no record; a
\* record carries the fields of its violation and the member as type, colon,
\* name, and the records of one violation differ in that member only; the
\* database writer is handed this list.
C12_FlattenFanOut ==
    LET vs   == all_violations
        flat == _flatten_violations(vs)
    IN  /\ Len(flat) = MemberCount(vs, Len(vs))
        /\ \A v \in 1..Len(vs) : \A m \in 1..Len(vs[v].members) :
              LET rec == flat[MemberCount(vs, v - 1) + m] IN
                /\ rec.resource_id = vs[v].resource_id
                /\ rec.resource_type = vs[v].resource_type
                /\ rec.full_name = vs[v].full_name
                /\ rec.rule_index = vs[v].rule_index
                /\ rec.rule_name = vs[v].rule_name
                /\ rec.violation_type = vs[v].violation_type
                /\ rec.inventory_data = vs[v].inventory_data
                /\ rec.violation_data.full_name = vs[v].full_name
                /\ rec.violation_data.role = vs[v].role
                /\ rec.violation_data.member =
                      vs[v].members[m].type \o <<":">> \o vs[v].members[m].name
                /\ \A n \in 1..Len(vs[v].members) :
                      [rec EXCEPT !.violation_data.member = <<>>] =
                      [flat[MemberCount(vs, v - 1) + n]
                          EXCEPT !.violation_data.member = <<>>]
        /\ pc = "done" => sinks[1].sink = "db" /\ sinks[1].data = flat

\* Witness of C12: the violations of a finished run include one with two
\* members and one with none, and records were written.
C12_Witness ==
    /\ pc = "done"
    /\ \E v \in 1..Len(all_violations) : Len(all_violations[v].members) = 2
    /\ \E v \in 1..Len(all_violations) : all_violations[v].members = <<>>
    /\ Len(sinks[1].data) >= 4

\* The positions, in yield order, of the records of a supported parent kind.
SupportedRecords ==
    SelectSeq([i \in 1..Len(records) |-> i],
              LAMBDA i : records[i].type \in
                  {"organization", "folder", "project", "bucket"})

\* C14. Retrieval classification: the tuple list has one tuple per record of
\* a supported parent kind and none for the others, in record order, each of
\* the kind and the full_name of its record; each count is the number of
\* tuples of its kind, so the counts sum to the length of the list.
C14_RetrievalClassification ==
    /\ Len(policy_data) = Len(SupportedRecords)
    /\ \A k \in 1..Len(policy_data) :
          /\ k <= Len(SupportedRecords)
          /\ policy_data[k].policy = SupportedRecords[k]
          /\ policy_data[k].type = records[SupportedRecords[k]].type
          /\ policy_data[k].full_name = records[SupportedRecords[k]].full_name
    /\ \A kind \in {"organization", "folder", "project", "bucket"} :
          resource_counts[kind] =
              Cardinality({k \in 1..Len(policy_data) :
                              policy_data[k].type = kind})
    /\ resource_counts["organization"] + resource_counts["folder"]
          + resource_counts["project"] + resource_counts["bucket"]
          = Len(policy_data)

\* Witness of C14: retrieval has returned after a record of an unsupported
\* kind, a bucket record and a record of another supported kind.
C14_Witness ==
    /\ pc = "resolve"
    /\ \E i \in 1..Len(records) : records[i].type \notin supported_iam_types
    /\ \E i \in 1..Len(records) : records[i].type = "bucket"
    /\ \E i \in 1..Len(records) :
          records[i].type \in {"organization", "folder", "project"}

\* C15. Database write errors are data, not aborts: the database write is
\* the first emission and is made on the flattened records, the run goes on
\* to its end whatever error list the writer returns, and on every run in
\* which the writer reports errors the notifier is called with those errors
\* as violation_errors.
C15_DbErrorsReachNotifier ==
    pc = "done" =>
        /\ sinks # <<>>
        /\ sinks[1].sink = "db"
        /\ sinks[1].data = _flatten_violations(all_violations)
        /\ sinks[1].errors # <<>> =>
              \E k \in 1..Len(sinks) :
                  /\ sinks[k].sink = "notifier"
                  /\ sinks[k].violation_errors = sinks[1].errors

\* The stage of run() a position belongs to: retrieval, ancestor resolution,
\* violation aggregation (and the flattening it hands over to), emission done.
Stage(p) ==
    CASE p \in {"retrieve", "exit"} -> 1
      [] p \in {"resolve", "bucket", "binding"} -> 2
      [] p \in {"resolved", "raised"} -> 3
      [] p = "done" -> 4

\* C16. Stage ordering and single mutation: no step of a run goes back to an
\* earlier stage; the resolver is invoked once, and has been invoked whenever
\* a later stage is on; the engine is called only after the resolver has
\* returned, and the sinks are written only when every tuple has been through
\* the engine, with the flattening of the aggregated violations; and from the
\* resolver's return on no step changes a binding list or a member set.
C16_StageOrder ==
    [][ /\ Stage(pc) <= Stage(pc')
        /\ calls' <= 1
        /\ pc' \in {"resolved", "raised", "done"} => calls' = 1
        /\ pc \in {"retrieve", "exit"} => calls = 0 /\ engine_log = <<>>
        /\ engine_log' # engine_log => pc = "resolved"
        /\ sinks' # sinks =>
              /\ pc = "resolved" /\ pc' = "done"
              /\ Len(engine_log) = Len(policy_data)
              /\ sinks'[1].data = _flatten_violations(all_violations)
        /\ pc \in {"resolved", "raised", "done"} =>
              UNCHANGED <<policy_data, role_name, members>>
      ]_vars

\* Witness of C16: a run has gone through every stage: the resolver has grown
\* a bucket's binding list, the engine has returned violations, and the sinks
\* have been written.
C16_Witness ==
    /\ pc = "done"
    /\ calls = 1
    /\ \E b \in Buckets : Len(Bindings(b)) > Len(OriginalBindings(b))
    /\ all_violations # <<>>
    /\ sinks # <<>>

\* C17. No ancestors, no change: once the resolver has processed the list, a
\* bucket of which no tuple of the list is a strict-prefix ancestor has the
\* binding list it was retrieved with: same entries, same order, same member
\* sets.
C17_NoAncestorsNoChange ==
    Resolved => \A b \in Buckets : Ancestors(b) = {} => Untouched(b)

\* C18. Independence from unrelated buckets: what the resolver gives a bucket
\* is a function of the original bindings of the bucket and of its ancestors,
\* the same whatever other buckets the list holds; so for every role the
\* resolved members of the bucket are among those the bucket and its
\* ancestors were retrieved with, as they are when the list holds nothing
\* else (stated for the well-formed lists, where it already fails).
C18_IndependentOfUnrelated ==
    (Resolved /\ WellFormed) =>
      \A b \in Buckets : \A r \in AllRoles :
        RoleMembers(b, r) \subseteq
            UNION {OriginalMembers(t, r) : t \in Ancestors(b) \cup {b}}

\* List a is the leading part of list b.
IsPrefix(a, b) == Len(a) <= Len(b) /\ SubSeq(b, 1, Len(a)) = a

\* C19. Monotone growth: no step removes an entry from a tuple's binding list
\* or a member from a binding: every list is the leading part of what the
\* step leaves, every member set is within what the step leaves; and once
\* retrieval has returned, the bindings each tuple was retrieved with are, in
\* their order, the leading entries of its list and hold at least the members
\* they were retrieved with.
C19_MonotoneGrowth ==
    [][ /\ \A t \in Tuples :
              /\ t <= Len(policy_data')
              /\ IsPrefix(Bindings(t), policy_data'[t].bindings)
        /\ \A x \in 1..Len(members) :
              /\ x <= Len(members')
              /\ members[x] \subseteq members'[x]
        /\ pc' # "retrieve" =>
              /\ Len(original'.policy_data) = Len(policy_data')
              /\ \A t \in 1..Len(policy_data') :
                    IsPrefix(original'.policy_data[t].bindings,
                             policy_data'[t].bindings)
              /\ \A x \in 1..Len(original'.members) :
                    original'.members[x] \subseteq members'[x]
      ]_vars

\* Witness of C19: the resolver has returned after appending entries behind
\* the bindings a bucket was retrieved with.
C19_Witness ==
    /\ pc = "resolved"
    /\ \E b \in Buckets :
          /\ OriginalBindings(b) # <<>>
          /\ Len(Bindings(b)) > Len(OriginalBindings(b))
          /\ IsPrefix(OriginalBindings(b), Bindings(b))

====
